---------------------------- MODULE Spec2Model ----------------------------
(***************************************************************************)
(* Model of src/src/main.rs: a process that builds two GStreamer           *)
(* pipelines (the RTMP ingestion pipeline "rtmp" and the compositor        *)
(* pipeline "comp"), starts both, runs one glib main loop that dispatches  *)
(* the bus messages of both pipelines to their watches, and stops both     *)
(* pipelines when the main loop returns.                                   *)
(*                                                                         *)
(* The GStreamer engine is external.  Each fallible engine call            *)
(* (set_state, set_property, recalculate_latency, element creation) is a   *)
(* nondeterministic choice between Ok and Err.  A successful set_state     *)
(* leaves the pipeline in the requested state, a failed one leaves it in   *)
(* the state it had.  The engine posts messages on a pipeline's bus at     *)
(* any time after the pipeline has been started.                           *)
(*                                                                         *)
(* A bus watch runs on the main loop's thread.  Its calls are modelled one *)
(* call at a time (Dispatch, HandlerStep..., HandlerReturn): they block,   *)
(* and the engine's threads keep posting messages meanwhile.               *)
(***************************************************************************)
EXTENDS Integers, Sequences, FiniteSets, TLC

\* ------------------------------------------------------------------ bounds
\* Longest queue of undispatched messages on one bus.
MaxBus == 2
\* Number of messages the engine posts in one run, both buses together,
\* when every command line option is given.
MaxPosts == 3
\* The same number for the other combinations of options.
MaxPostsShallow == 1

\* ------------------------------------------------------------- data types
Pipes == {"rtmp", "comp"}

Other(p) == IF p = "rtmp" THEN "comp" ELSE "rtmp"

\* gst::State values the program requests or tests.
States == {"Null", "Paused", "Playing"}

\* Values of --live-rtmp-uri.
Uris == {"rtmp://example/live", "rtmp://example/backup"}

\* Values of Buffering::get_percent().
Percents == {30, 60, 100}

NoPercent == -1

\* Option<T>: None, or Some(v).
Some(v) == [some |-> TRUE, v |-> v]

\* Option<i32>::None of --eos-after and --error-after.
NoCount == [some |-> FALSE, v |-> 0]

\* Values of --eos-after and --error-after.
Counts == {NoCount, Some(50)}

\* gst::SECOND, in nanoseconds.
SECOND == 1000000000

\* A u64 is written in base SECOND, most significant digit first:
\* <<a, b, c>> is a * SECOND^2 + b * SECOND + c.
U64Max == <<18, 446744073, 709551615>>

\* Option<u64>::None of --discard-after.
NoSeconds == [some |-> FALSE, v |-> <<0, 0, 0>>]

\* Values of --discard-after: unset, 2, the largest number of seconds whose
\* nanoseconds fit a u64 (18446744073), the next one, and u64::MAX.
Seconds ==
    {NoSeconds, Some(<<0, 0, 2>>), Some(<<0, 18, 446744073>>),
     Some(<<0, 18, 446744074>>), Some(U64Max)}

\* Args, as structopt parses the command line.
ArgsSet ==
    [live_rtmp_uri : Uris, eos_after : Counts, error_after : Counts,
     discard_after : Seconds]

\* The command lines that give every option, with small values.
FullArgs(a) ==
    /\ a.eos_after.some /\ a.error_after.some
    /\ a.discard_after = Some(<<0, 0, 2>>)

Msg(t, p, self, cur) == [type |-> t, percent |-> p, self |-> self, cur |-> cur]

\* gst::MessageView variants the watches distinguish.  StateChanged carries
\* whether its source is the pipeline itself and the state reached: the
\* pipeline reaching Playing, the pipeline reaching another state, and a
\* child element reaching Playing are the three cases of the test.
Messages ==
    {Msg("Error", NoPercent, FALSE, "Null"), Msg("Eos", NoPercent, FALSE, "Null"),
     Msg("Latency", NoPercent, FALSE, "Null")}
    \cup {Msg("Buffering", p, FALSE, "Null") : p \in Percents}
    \cup {Msg("StateChanged", NoPercent, TRUE, "Playing"),
          Msg("StateChanged", NoPercent, TRUE, "Paused"),
          Msg("StateChanged", NoPercent, FALSE, "Playing")}

NoMsg == Msg("None", NoPercent, FALSE, "Null")

\* One engine call of a watch.  fail says what the code does with an Err:
\* "unwrap" panics, "ignore" drops it (let _ =), "never" cannot fail.
Call(op, arg, fail) == [op |-> op, arg |-> arg, fail |-> fail]

VARIABLES
    pc,          \* position of main()
    args,        \* Args
    built,       \* pipelines whose build function returned Ok
    buildFailed, \* a build function returned Err or panicked
    state,       \* state[p]: gst::State of pipeline p
    uriProp,     \* the "uri" property of playbin3
    closureUri,  \* the uri the RTMP watch closure captured
    pads,        \* properties of the compositor's sink pads
    identity,    \* properties of the identity element of the RTMP pipeline
    watch,       \* pipelines whose bus watch is registered
    bus,         \* bus[p]: messages posted and not yet dispatched
    posts,       \* messages posted so far
    hpipe,       \* pipeline whose watch is running, "none" when idle
    hmsg,        \* message the running (or last) watch was called with
    hplan,       \* calls the running watch has still to make
    hcalls,      \* calls the running (or last) watch has made
    hpre,        \* state of its pipeline when that watch was called
    triggers,    \* Error/Eos messages dispatched to the RTMP watch
    restarts,    \* restart_pipeline calls that returned
    overlap,     \* an Error/Eos was posted while a restart was in progress
    bufHist,     \* the Buffering messages the RTMP watch handled in a row
    eosWait,     \* throttling sleeps made while an Eos waited on the RTMP bus
    stopTried    \* pipelines main() asked to stop after the main loop

vars == <<pc, args, built, buildFailed, state, uriProp, closureUri, pads, identity,
          watch, bus, posts, hpipe, hmsg, hplan, hcalls, hpre, triggers, restarts, overlap,
          bufHist, eosWait, stopTried>>

driverVars == <<pc, built, buildFailed, stopTried>>
buildVars == <<closureUri, pads, identity, watch>>
histVars == <<triggers, restarts, overlap, bufHist, eosWait>>
handlerVars == <<hpipe, hmsg, hplan, hcalls, hpre>>

NoUri == "unset"

\* ------------------------------------------------------------------- Init
Init ==
    /\ pc = "build_rtmp"
    /\ args \in ArgsSet
    /\ built = {}
    /\ buildFailed = FALSE
    /\ state = [p \in Pipes |-> "Null"]
    /\ uriProp = NoUri
    /\ closureUri = NoUri
    /\ pads = <<>>
    /\ identity = [eos_after |-> NoCount, error_after |-> NoCount]
    /\ watch = {}
    /\ bus = [p \in Pipes |-> <<>>]
    /\ posts = 0
    /\ hpipe = "none"
    /\ hmsg = NoMsg
    /\ hplan = <<>>
    /\ hcalls = <<>>
    /\ hpre = "Null"
    /\ triggers = 0
    /\ restarts = 0
    /\ overlap = FALSE
    /\ bufHist = <<>>
    /\ eosWait = 0
    /\ stopTried = {}

\* ------------------------------------------------ the build functions
\* a <= b for two numbers of three digits.
Leq(a, b) ==
    \/ a[1] < b[1]
    \/ a[1] = b[1] /\ a[2] < b[2]
    \/ a[1] = b[1] /\ a[2] = b[2] /\ a[3] <= b[3]

\* s * SECOND as a number of four digits: the product of a number written
\* in base SECOND by SECOND is that number with one more digit, 0.
TimesSecond(s) == <<s[1], s[2], s[3], 0>>

\* A gst::ClockTime: Option<u64> nanoseconds, None being CLOCK_TIME_NONE.
ClockTimeNone == [some |-> FALSE, v |-> <<0, 0, 0>>]

\* discard_after * gst::SECOND.  The multiplication of gst::ClockTime is a
\* checked one: a product that does not fit a u64 gives ClockTime none.
clock_time_mul(s) ==
    IF TimesSecond(s)[1] = 0 /\ Leq(Tail(TimesSecond(s)), U64Max)
    THEN Some(Tail(TimesSecond(s)))
    ELSE ClockTimeNone

\* A pad property the program did not set, and one it set to time t.
NotSet == [set |-> FALSE, time |-> ClockTimeNone]

SetTo(t) == [set |-> TRUE, time |-> t]

\* Variant of live_pad: the live input is given the z-order of the
\* fallback.
live_pad_at_bottom(a) ==
    [src |-> "live", zorder |-> 0, width |-> 1280, height |-> 720,
     max_last_buffer_repeat |->
        IF a.discard_after.some
        THEN SetTo(clock_time_mul(a.discard_after.v)) ELSE NotSet]

\* The properties of the compositor's pad sink_0, which the link of
\* interpipesrc ! queue ! compositor feeds.
live_pad(a) ==
    [src |-> "live", zorder |-> 1, width |-> 1280, height |-> 720,
     max_last_buffer_repeat |->
        IF a.discard_after.some
        THEN SetTo(clock_time_mul(a.discard_after.v)) ELSE NotSet]

\* The properties of the compositor's pad sink_1, which the link of
\* videotestsrc ! queue ! capsfilter ! compositor feeds.
fallback_pad(a) ==
    [src |-> "fallback", zorder |-> 0, width |-> 1280, height |-> 720,
     max_last_buffer_repeat |-> NotSet]

\* Variant of identity_props: each count is set on the other property.
identity_props_swapped(a) ==
    [eos_after |-> a.error_after, error_after |-> a.eos_after]

\* The properties build_rtmp_pipeline sets on the identity element.
identity_props(a) == [eos_after |-> a.eos_after, error_after |-> a.error_after]

\* ---------------------------------------------------- the watches' code
\* Variant of default_handle_message: the Latency arm also asks for
\* Playing, as the Buffering arm of the RTMP watch does at 100.
default_handle_message_resuming(msg) ==
    IF msg.type = "Latency"
    THEN <<Call("recalculate_latency", "", "unwrap"),
           Call("set_state", "Playing", "ignore")>>
    ELSE IF msg.type = "StateChanged" /\ msg.self /\ msg.cur = "Playing"
         THEN <<Call("debug_to_dot_file", "PLAYING", "never")>>
         ELSE <<>>

\* default_handle_message: the calls it makes for msg.
default_handle_message(msg) ==
    IF msg.type = "Latency"
    THEN <<Call("recalculate_latency", "", "unwrap")>>
    ELSE IF msg.type = "StateChanged" /\ msg.self /\ msg.cur = "Playing"
         THEN <<Call("debug_to_dot_file", "PLAYING", "never")>>
         ELSE <<>>

\* Variant of restart_pipeline: the uri is set on the running pipeline,
\* before it is stopped.
restart_pipeline_uri_first(uri) ==
    <<Call("set_property", uri, "unwrap"),
      Call("set_state", "Null", "unwrap"),
      Call("set_state", "Playing", "unwrap")>>

\* Variant of restart_pipeline: the pipeline is put back in the state it
\* had, not in Playing.
restart_pipeline_keep_state(uri) ==
    <<Call("set_state", "Null", "unwrap"),
      Call("set_property", uri, "unwrap"),
      Call("set_state", state["rtmp"], "unwrap")>>

\* restart_pipeline(uri, pipe): the calls it makes, in order.
restart_pipeline(uri) ==
    <<Call("set_state", "Null", "unwrap"),
      Call("set_property", uri, "unwrap"),
      Call("set_state", "Playing", "unwrap")>>

\* Variant of buffering_arm: the threshold test lets 100 through as "still
\* buffering".
buffering_arm_inclusive(percent) ==
    IF percent <= 100
    THEN <<Call("set_state", "Paused", "ignore")>>
    ELSE <<Call("set_state", "Playing", "ignore")>>

\* The Buffering arm of the RTMP watch.
buffering_arm(percent) ==
    IF percent < 100
    THEN <<Call("set_state", "Paused", "ignore")>>
    ELSE <<Call("set_state", "Playing", "ignore")>>

\* Variant of error_arm: the throttling sleep is left out.
error_arm_no_throttle(uri) == restart_pipeline(uri)

\* The Error arm of the RTMP watch: the naive throttling, then the restart.
error_arm(uri) ==
    <<Call("sleep", "1000ms", "never")>> \o restart_pipeline(uri)

\* Variant of eos_arm: end of stream is terminal, the pipeline is stopped
\* and not started again.
eos_arm_terminal(uri) == <<Call("set_state", "Null", "unwrap")>>

\* The Eos arm of the RTMP watch.
eos_arm(uri) == restart_pipeline(uri)

\* Variant of rtmp_watch: no Eos arm, Eos falls through to the default.
rtmp_watch_eos_ignored(msg, uri) ==
    CASE msg.type = "Error" -> error_arm(uri)
      [] msg.type = "Buffering" -> buffering_arm(msg.percent)
      [] OTHER -> default_handle_message(msg)

\* The closure build_rtmp_pipeline registers with bus.add_watch.
rtmp_watch(msg, uri) ==
    CASE msg.type = "Error" -> error_arm(uri)
      [] msg.type = "Buffering" -> buffering_arm(msg.percent)
      [] msg.type = "Eos" -> eos_arm(uri)
      [] OTHER -> default_handle_message(msg)

\* Variant of compositor_watch: it recovers from Error and Eos like the
\* RTMP watch does.
compositor_watch_restarting(msg) ==
    IF msg.type \in {"Error", "Eos"}
    THEN restart_pipeline("unset")
    ELSE default_handle_message(msg)

\* The closure build_compositor_pipeline registers with bus.add_watch.
compositor_watch(msg) == default_handle_message(msg)

\* Variant of pipe_clone: the closure captured the other pipeline.
pipe_clone_other(p) == Other(p)

\* The pipeline a watch acts on: the pipe_clone its closure captured.
pipe_clone(p) == p

\* Variant of uri_clone: the watch restarts with a fixed uri, not the
\* configured one.
uri_clone_hardcoded(a) == "rtmp://example/live"

\* The uri build_rtmp_pipeline clones for its watch.
uri_clone(a) == a.live_rtmp_uri

\* Variant of watch_continue: the watch returns Continue(false) after an
\* Eos.
watch_continue_until_eos(p) == hmsg.type # "Eos"

\* What a watch returns: glib::Continue(true) keeps it registered.
watch_continue(p) == TRUE

\* Variant of Try: the Err is dropped and main goes on.
TryIgnored(ok, next) == next

\* The ? operator of main(): an Err ends main with that error.
Try(ok, next) == IF ok THEN next ELSE "exit_err"

WatchPlan(p, msg) ==
    IF p = "rtmp" THEN rtmp_watch(msg, closureUri) ELSE compositor_watch(msg)

IsTrigger(msg) == msg.type \in {"Error", "Eos"}

\* A call as the log keeps it: what was called, on which pipeline, and
\* whether the engine returned Ok.
Made(c, p, ok) == [op |-> c.op, arg |-> c.arg, pipe |-> p, ok |-> ok]

\* The calls of a log, without their targets and results.
Ops(log) == [i \in DOMAIN log |-> <<log[i].op, log[i].arg>>]

\* Number of complete stop / set uri / start sequences in a log.
RestartsIn(log) ==
    Cardinality({i \in 1..(Len(log) - 2) :
        /\ log[i].op = "set_state" /\ log[i].arg = "Null" /\ log[i].ok
        /\ log[i + 1].op = "set_property" /\ log[i + 1].ok
        /\ log[i + 2].op = "set_state" /\ log[i + 2].arg = "Playing"
        /\ log[i + 2].ok})

\* ------------------------------------------------------------- main()
\* build_rtmp_pipeline returns Ok (the watch is registered) or Err.
BuildRtmp ==
    /\ pc = "build_rtmp"
    /\ \E ok \in BOOLEAN :
        /\ pc' = Try(ok, "build_comp")
        /\ buildFailed' = (buildFailed \/ ~ok)
        /\ IF ok
           THEN /\ built' = built \cup {"rtmp"}
                /\ uriProp' = args.live_rtmp_uri
                /\ closureUri' = uri_clone(args)
                /\ identity' = identity_props(args)
                /\ watch' = watch \cup {"rtmp"}
           ELSE UNCHANGED <<built, uriProp, closureUri, identity, watch>>
    /\ UNCHANGED <<args, state, pads, bus, posts, handlerVars, histVars, stopTried>>

\* One of the unwrap() calls of a build function panics.
BuildPanic ==
    /\ pc \in {"build_rtmp", "build_comp"}
    /\ pc' = "panicked"
    /\ buildFailed' = TRUE
    /\ UNCHANGED <<args, built, state, uriProp, buildVars, bus, posts, handlerVars,
                   histVars, stopTried>>

\* build_compositor_pipeline returns Ok (pads set, watch registered) or Err.
BuildComp ==
    /\ pc = "build_comp"
    /\ \E ok \in BOOLEAN :
        /\ pc' = Try(ok, "start_rtmp")
        /\ buildFailed' = (buildFailed \/ ~ok)
        /\ IF ok
           THEN /\ built' = built \cup {"comp"}
                /\ pads' = [sink_0 |-> live_pad(args), sink_1 |-> fallback_pad(args)]
                /\ watch' = watch \cup {"comp"}
           ELSE UNCHANGED <<built, pads, watch>>
    /\ UNCHANGED <<args, state, uriProp, closureUri, identity, bus, posts,
                   handlerVars, histVars, stopTried>>

\* rtmp_pipe.set_state(Playing)?
StartRtmp ==
    /\ pc = "start_rtmp"
    /\ \E ok \in BOOLEAN :
        /\ pc' = Try(ok, "start_comp")
        /\ state' = IF ok THEN [state EXCEPT !["rtmp"] = "Playing"] ELSE state
    /\ UNCHANGED <<args, built, buildFailed, uriProp, buildVars, bus, posts,
                   handlerVars, histVars, stopTried>>

\* compositor_pipe.set_state(Playing)?, then main_loop.run() is entered.
StartComp ==
    /\ pc = "start_comp"
    /\ \E ok \in BOOLEAN :
        /\ pc' = Try(ok, "loop")
        /\ state' = IF ok THEN [state EXCEPT !["comp"] = "Playing"] ELSE state
    /\ UNCHANGED <<args, built, buildFailed, uriProp, buildVars, bus, posts,
                   handlerVars, histVars, stopTried>>

\* main_loop.run() returns; no watch is running then.  Nothing in the source
\* calls quit() on the loop: the return stands for whatever makes the lines
\* after it run.
MainLoopReturn ==
    /\ pc = "loop"
    /\ hpipe = "none"
    /\ pc' = "stop_rtmp"
    /\ UNCHANGED <<args, built, buildFailed, state, uriProp, buildVars, bus, posts,
                   handlerVars, histVars, stopTried>>

\* rtmp_pipe.set_state(Null)?
StopRtmp ==
    /\ pc = "stop_rtmp"
    /\ stopTried' = stopTried \cup {"rtmp"}
    /\ \E ok \in BOOLEAN :
        /\ pc' = Try(ok, "stop_comp")
        /\ state' = IF ok THEN [state EXCEPT !["rtmp"] = "Null"] ELSE state
    /\ UNCHANGED <<args, built, buildFailed, uriProp, buildVars, bus, posts,
                   handlerVars, histVars>>

\* compositor_pipe.set_state(Null)?, then Ok(()).
StopComp ==
    /\ pc = "stop_comp"
    /\ stopTried' = stopTried \cup {"comp"}
    /\ \E ok \in BOOLEAN :
        /\ pc' = Try(ok, "exit_ok")
        /\ state' = IF ok THEN [state EXCEPT !["comp"] = "Null"] ELSE state
    /\ UNCHANGED <<args, built, buildFailed, uriProp, buildVars, bus, posts,
                   handlerVars, histVars>>

\* ------------------------------------------------------------ the engine
\* Pipelines main() has started: their streaming threads post messages.
Started(p) ==
    IF p = "rtmp" THEN pc \in {"start_comp", "loop"} ELSE pc = "loop"

\* A thread of the engine posts message m on the bus of pipeline p.
EnginePost ==
    /\ posts < (IF FullArgs(args) THEN MaxPosts ELSE MaxPostsShallow)
    /\ \E p \in Pipes, m \in Messages :
        /\ Started(p)
        /\ Len(bus[p]) < MaxBus
        /\ bus' = [bus EXCEPT ![p] = Append(@, m)]
        /\ overlap' = (overlap \/ (p = "rtmp" /\ IsTrigger(m) /\ hpipe = "rtmp"
                                   /\ IsTrigger(hmsg)))
    /\ posts' = posts + 1
    /\ UNCHANGED <<driverVars, args, state, uriProp, buildVars, handlerVars,
                   triggers, restarts, bufHist, eosWait>>

\* --------------------------------------------------------- the main loop
\* Variant of main_context_idle: each bus dispatches on a thread of its own,
\* whether a watch is running or not.
main_context_threaded == TRUE

\* Both watches are attached to the default main context, which the one
\* main loop of main() runs: it dispatches when no watch is running.
main_context_idle == hpipe = "none"

\* The main loop takes the oldest message of one bus and calls that bus's
\* watch with it.  One thread runs the loop: no watch is running then.
Dispatch ==
    /\ pc = "loop"
    /\ main_context_idle
    /\ \E p \in watch :
        /\ bus[p] # <<>>
        /\ bus' = [bus EXCEPT ![p] = Tail(@)]
        /\ hpipe' = p
        /\ hmsg' = Head(bus[p])
        /\ hplan' = WatchPlan(p, Head(bus[p]))
        /\ hcalls' = <<>>
        /\ hpre' = state[p]
        /\ triggers' = IF p = "rtmp" /\ IsTrigger(Head(bus[p]))
                       THEN triggers + 1 ELSE triggers
        /\ bufHist' = IF p = "rtmp" /\ IsTrigger(Head(bus[p])) THEN <<>> ELSE bufHist
    /\ UNCHANGED <<driverVars, args, state, uriProp, buildVars, posts, restarts,
                   overlap, eosWait>>

\* The effect of a call the engine accepted.
Effect(c, p) ==
    /\ state' = IF c.op = "set_state" THEN [state EXCEPT ![p] = c.arg] ELSE state
    /\ uriProp' = IF c.op = "set_property" /\ p = "rtmp" THEN c.arg ELSE uriProp

\* An Eos message is on the RTMP bus, not yet dispatched.
EosWaiting == \E i \in DOMAIN bus["rtmp"] : bus["rtmp"][i].type = "Eos"

\* The running watch makes its next call and the engine returns Ok.
HandlerCall ==
    /\ pc = "loop"
    /\ hpipe # "none"
    /\ hplan # <<>>
    /\ Effect(Head(hplan), pipe_clone(hpipe))
    /\ hcalls' = Append(hcalls, Made(Head(hplan), pipe_clone(hpipe), TRUE))
    /\ hplan' = Tail(hplan)
    /\ eosWait' = IF Head(hplan).op = "sleep" /\ EosWaiting THEN eosWait + 1 ELSE eosWait
    /\ UNCHANGED <<driverVars, args, buildVars, bus, posts, hpipe, hmsg, hpre,
                   triggers, restarts, overlap, bufHist>>

\* The next call returns Err and the watch drops the result (let _ =).
HandlerCallIgnored ==
    /\ pc = "loop"
    /\ hpipe # "none"
    /\ hplan # <<>>
    /\ Head(hplan).fail = "ignore"
    /\ hcalls' = Append(hcalls, Made(Head(hplan), pipe_clone(hpipe), FALSE))
    /\ hplan' = Tail(hplan)
    /\ UNCHANGED <<driverVars, args, state, uriProp, buildVars, bus, posts, hpipe,
                   hmsg, hpre, histVars>>

\* The next call returns Err and the watch unwraps it.  The panic leaves a
\* closure the C main loop called: whether the build aborts there or unwinds
\* through the loop and out of main(), the process ends inside the watch,
\* which never returns, and main() stops no pipeline.
HandlerPanic ==
    /\ pc = "loop"
    /\ hpipe # "none"
    /\ hplan # <<>>
    /\ Head(hplan).fail = "unwrap"
    /\ hcalls' = Append(hcalls, Made(Head(hplan), pipe_clone(hpipe), FALSE))
    /\ pc' = "panicked"
    /\ UNCHANGED <<args, built, buildFailed, stopTried, state, uriProp, buildVars,
                   bus, posts, hpipe, hmsg, hplan, hpre, histVars>>

\* What the RTMP watch did with one Buffering message.
BufEntry ==
    [percent |-> hmsg.percent, pre |-> hpre, call |-> hcalls[1].arg,
     ok |-> hcalls[1].ok, post |-> state["rtmp"]]

\* The watch has made all its calls and returns.
HandlerReturn ==
    /\ pc = "loop"
    /\ hpipe # "none"
    /\ hplan = <<>>
    /\ hpipe' = "none"
    /\ watch' = IF watch_continue(hpipe) THEN watch ELSE watch \ {hpipe}
    /\ restarts' = restarts + RestartsIn(hcalls)
    /\ bufHist' = IF hpipe = "rtmp" /\ hmsg.type = "Buffering"
                  THEN Append(bufHist, BufEntry) ELSE bufHist
    /\ eosWait' = IF hpipe = "rtmp" /\ hmsg.type = "Eos" THEN 0 ELSE eosWait
    /\ UNCHANGED <<driverVars, args, state, uriProp, closureUri, pads, identity,
                   bus, posts, hmsg, hplan, hcalls, hpre, triggers, overlap>>

Next ==
    \/ BuildRtmp
    \/ BuildComp
    \/ BuildPanic
    \/ StartRtmp
    \/ StartComp
    \/ EnginePost
    \/ Dispatch
    \/ HandlerCall
    \/ HandlerCallIgnored
    \/ HandlerPanic
    \/ HandlerReturn
    \/ MainLoopReturn
    \/ StopRtmp
    \/ StopComp

Spec == Init /\ [][Next]_vars

\* ================================================================ claims
IsPrefix(a, b) == Len(a) <= Len(b) /\ \A i \in DOMAIN a : a[i] = b[i]

\* The RTMP watch is running (or panicked) on a message of type t.
InRtmpWatch(t) == hpipe = "rtmp" /\ hmsg.type = t

\* The running watch has made all its calls: it returns next.
AtReturn == pc = "loop" /\ hpipe # "none" /\ hplan = <<>>

AllOnOwnPipe == \A i \in DOMAIN hcalls : hcalls[i].pipe = hpipe

ErrorSequence(uri) ==
    <<(<<"sleep", "1000ms">>), (<<"set_state", "Null">>),
      (<<"set_property", uri>>), (<<"set_state", "Playing">>)>>

EosSequence(uri) ==
    <<(<<"set_state", "Null">>), (<<"set_property", uri>>),
      (<<"set_state", "Playing">>)>>

\* C1: the RTMP watch called with an Error makes, in this order and once
\* each, the throttling sleep, set_state(Null), the set of "uri" and
\* set_state(Playing), all on the RTMP pipeline; when it returns it has made
\* all four and the RTMP pipeline is Playing.
C1_ErrorRestartSequence ==
    InRtmpWatch("Error") =>
        /\ IsPrefix(Ops(hcalls), ErrorSequence(args.live_rtmp_uri))
        /\ AllOnOwnPipe
        /\ AtReturn => /\ Ops(hcalls) = ErrorSequence(args.live_rtmp_uri)
                       /\ state["rtmp"] = "Playing"

C1_Witness ==
    /\ InRtmpWatch("Error") /\ AtReturn
    /\ Len(hcalls) = 4 /\ state["rtmp"] = "Playing"

\* C2 as stated: a pause call is made only when the pipeline is Playing and
\* percent < 100, a resume call only when it is Paused and percent = 100,
\* so that 30, 60, 100 gives one pause call and one resume call.
C2_PauseResumeOnlyOnChange ==
    \A i \in DOMAIN bufHist :
        /\ bufHist[i].call = "Paused" =>
               bufHist[i].pre = "Playing" /\ bufHist[i].percent < 100
        /\ bufHist[i].call = "Playing" =>
               bufHist[i].pre = "Paused" /\ bufHist[i].percent = 100

\* C2 amended: every Buffering message makes the RTMP watch request one
\* state, whatever the pipeline's state is: Paused when percent < 100,
\* Playing otherwise; the pipeline is in the requested state afterwards when
\* the engine accepted the request, and in the state it had when not.  So
\* 30, 60, 100 from Playing requests Paused, Paused, Playing and the pipeline
\* goes Playing -> Paused -> Paused -> Playing.
C2_OneRequestPerBuffering ==
    /\ \A i \in DOMAIN bufHist :
        /\ bufHist[i].call = IF bufHist[i].percent < 100 THEN "Paused" ELSE "Playing"
        /\ bufHist[i].post = IF bufHist[i].ok THEN bufHist[i].call ELSE bufHist[i].pre
    /\ (InRtmpWatch("Buffering") /\ AtReturn) => Len(hcalls) = 1 /\ AllOnOwnPipe

C2_Witness ==
    /\ Len(bufHist) = 3
    /\ [i \in 1..3 |-> bufHist[i].percent] = <<30, 60, 100>>
    /\ \A i \in 1..3 : bufHist[i].ok
    /\ [i \in 1..3 |-> bufHist[i].pre] = <<"Playing", "Paused", "Paused">>
    /\ [i \in 1..3 |-> bufHist[i].call] = <<"Paused", "Paused", "Playing">>
    /\ bufHist[3].post = "Playing"

\* C3: every set of the "uri" property a watch makes, after any number of
\* restarts and any other messages, sets the uri given on the command line,
\* and that is the value the property has from build time on.
C3_RestartUsesConfiguredUri ==
    /\ \A i \in DOMAIN hcalls :
        hcalls[i].op = "set_property" => hcalls[i].arg = args.live_rtmp_uri
    /\ "rtmp" \in built => uriProp = args.live_rtmp_uri

C3_Witness ==
    /\ restarts >= 1 /\ hpipe = "rtmp" /\ IsTrigger(hmsg)
    /\ Len(hcalls) >= 2 /\ hcalls[Len(hcalls)].op = "set_property"
    /\ hcalls[Len(hcalls)].ok
    /\ args.live_rtmp_uri = "rtmp://example/backup"

\* C4: every Error or Eos message dispatched to the RTMP watch makes exactly
\* one restart sequence, with no de-duplication: the restarts made are as
\* many as those messages, less the one in progress.
C4_OneRestartPerTrigger ==
    IF hpipe = "rtmp" /\ IsTrigger(hmsg)
    THEN /\ restarts + 1 = triggers
         /\ RestartsIn(hcalls) = IF hplan = <<>> THEN 1 ELSE 0
    ELSE restarts = triggers

C4_Witness == overlap /\ hpipe = "none" /\ restarts = 2 /\ triggers = 2

\* C5: the RTMP watch called with an Eos makes set_state(Null), the set of
\* "uri" and set_state(Playing), with no sleep before them; when it returns
\* the RTMP pipeline is Playing.
C5_EosRestartsAtOnce ==
    InRtmpWatch("Eos") =>
        /\ IsPrefix(Ops(hcalls), EosSequence(args.live_rtmp_uri))
        /\ AllOnOwnPipe
        /\ AtReturn => /\ Ops(hcalls) = EosSequence(args.live_rtmp_uri)
                       /\ state["rtmp"] = "Playing"

C5_Witness ==
    /\ InRtmpWatch("Eos") /\ AtReturn
    /\ Len(hcalls) = 3 /\ state["rtmp"] = "Playing"

\* C6: no step of a watch of one pipeline (its dispatch, its calls, its
\* return, its panic) changes the state of the other pipeline, nor the other
\* pipeline's parameters: the compositor's pads for the RTMP watch, the
\* "uri" property for the compositor's watch.
C6_WatchLeavesOtherPipeline ==
    [][\A p \in Pipes :
          (pc = "loop" /\ (hpipe = p \/ hpipe' = p)) =>
              /\ state'[Other(p)] = state[Other(p)]
              /\ p = "rtmp" => pads' = pads
              /\ p = "comp" => uriProp' = uriProp /\ closureUri' = closureUri]_vars

C6_Witness ==
    /\ hpipe = "rtmp" /\ IsTrigger(hmsg) /\ AtReturn
    /\ state["rtmp"] = "Playing" /\ state["comp"] = "Playing"
    /\ bus["comp"] # <<>>

\* C7: an Error message on the RTMP bus is never fatal: the process does
\* not end inside the watch called with it, whatever the calls of the
\* restart return.
C7_ErrorNeverFatal == ~(pc = "panicked" /\ InRtmpWatch("Error"))

\* C8: when main() ends after the main loop has returned, it has asked both
\* pipelines to stop, the second one also when stopping the first failed.
C8_BothStopsTried ==
    (pc \in {"exit_ok", "exit_err"} /\ stopTried # {}) => stopTried = Pipes

C10_CompositorNeverRecovers ==
    hpipe = "comp" =>
        /\ hmsg.type \in {"Error", "Eos", "Buffering"} => hplan = <<>> /\ hcalls = <<>>
        /\ \A i \in DOMAIN hcalls :
            /\ hcalls[i].op \in {"recalculate_latency", "debug_to_dot_file"}
            /\ hcalls[i].pipe = "comp"
            /\ hcalls[i].op = "recalculate_latency" => hmsg.type = "Latency"
            /\ hcalls[i].op = "debug_to_dot_file" => hmsg.type = "StateChanged"
        /\ (AtReturn /\ hmsg.type = "Latency") =>
               Ops(hcalls) = <<(<<"recalculate_latency", "">>)>>

C10_Witness ==
    /\ hpipe = "comp" /\ hmsg.type = "Error" /\ AtReturn
    /\ hcalls = <<>> /\ state["comp"] = "Playing"

PadNames == {"sink_0", "sink_1"}

\* The pads of the compositor that have z-order z.
PadsAt(z) == {n \in PadNames : pads[n].zorder = z}

\* C11: whatever options the command line gives, and after any messages,
\* the built compositor has exactly one input with z-order 0, the fallback,
\* and exactly one with z-order 1, the live input, both 1280 x 720.
C11_ZOrderAndCanvas ==
    "comp" \in built =>
        /\ Cardinality(PadsAt(0)) = 1
        /\ \A n \in PadsAt(0) : pads[n].src = "fallback"
        /\ Cardinality(PadsAt(1)) = 1
        /\ \A n \in PadsAt(1) : pads[n].src = "live"
        /\ \A n \in PadNames : pads[n].width = 1280 /\ pads[n].height = 720

C11_Witness ==
    /\ "comp" \in built /\ restarts = 1 /\ hpipe = "none"
    /\ ~args.discard_after.some /\ args.eos_after.some /\ ~args.error_after.some
    /\ pads["sink_0"].zorder = 1 /\ pads["sink_1"].zorder = 0

\* C12: when --discard-after s is given, max-last-buffer-repeat is set on
\* the live input only and is s * SECOND nanoseconds, for every u64 s; when
\* it is not given, the property is set on no input.
C12_StalenessIsSecondsTimesSecond ==
    "comp" \in built =>
        /\ pads["sink_1"].max_last_buffer_repeat = NotSet
        /\ pads["sink_0"].src = "live"
        /\ IF args.discard_after.some
           THEN /\ pads["sink_0"].max_last_buffer_repeat.set
                /\ pads["sink_0"].max_last_buffer_repeat.time.some
                /\ <<0>> \o pads["sink_0"].max_last_buffer_repeat.time.v
                       = TimesSecond(args.discard_after.v)
           ELSE pads["sink_0"].max_last_buffer_repeat = NotSet

Sleeps(log) == {i \in DOMAIN log : log[i].op = "sleep"}

\* C13 as stated, for what the watch does: with --eos-after given, the
\* restart made for an Eos comes within one throttle interval of the Eos,
\* so no whole throttle interval passes while the Eos waits on the bus.
C13_EosRestartWithinThrottle ==
    (args.eos_after.some /\ InRtmpWatch("Eos")) => eosWait = 0

\* C13 amended: --eos-after N is set as eos-after on the identity element
\* (and --error-after as error-after); every Eos dispatched to the RTMP
\* watch is restarted from with no sleep in that call of the watch, but it
\* waits on the bus while earlier messages are handled, one throttle
\* interval at most for each Error dispatched before it.
C13_EosRestartAfterEarlierThrottles ==
    /\ "rtmp" \in built =>
           /\ identity.eos_after = args.eos_after
           /\ identity.error_after = args.error_after
    /\ InRtmpWatch("Eos") =>
           /\ Sleeps(hcalls) = {} /\ Sleeps(hplan) = {}
           /\ AtReturn => RestartsIn(hcalls) = 1
           /\ eosWait + 1 <= triggers
    /\ eosWait <= triggers

C13_Witness ==
    /\ args.eos_after = Some(50)
    /\ identity.eos_after = Some(50)
    /\ InRtmpWatch("Eos") /\ AtReturn
    /\ eosWait = 1 /\ RestartsIn(hcalls) = 1

\* A watch is running: it was called and has not returned.
Running == pc = "loop" /\ hpipe # "none"

\* C15: one watch runs at a time, over both pipelines: while a watch runs,
\* through the sleep and the restart of the Error arm too, no message of
\* either bus is dispatched, and the watch returns only when it has made
\* all its calls.
C15_OneWatchAtATime ==
    [][Running =>
          \/ hpipe' = "none" /\ hplan = <<>> /\ bus' = bus
          \/ /\ hpipe' = hpipe /\ hmsg' = hmsg
             /\ \A p \in Pipes : IsPrefix(bus[p], bus'[p])
             /\ IsPrefix(hcalls, hcalls')]_vars

C15_Witness ==
    /\ InRtmpWatch("Error") /\ pc = "loop"
    /\ Len(hcalls) = 1 /\ hcalls[1].op = "sleep"
    /\ bus["rtmp"] # <<>> /\ bus["comp"] # <<>>

\* C16 as stated: the state of a pipeline only goes from Null to Playing
\* and from Playing to Null.
C16_OnlyStoppedAndRunning ==
    [][\A p \in Pipes :
          state'[p] # state[p] =>
              <<state[p], state'[p]>> \in {<<"Null", "Playing">>, <<"Playing", "Null">>}]_vars

\* The last call of a log.
Last(log) == log[Len(log)]

\* A step in which the running watch makes a call the engine accepts.
MadeCall == Running /\ Len(hcalls') = Len(hcalls) + 1 /\ Last(hcalls').ok

\* C16 amended: the state of a pipeline goes between Null, Playing and
\* Paused.  Paused is entered from Playing and left for Playing only by the
\* Buffering arm of the RTMP watch.  A restart enters Playing from Null
\* only, by set_state(Null) followed by set_state(Playing), from Playing or
\* from Paused, and the RTMP pipeline is in Null when the uri is set again.
C16_RestartPassesThroughNull ==
    [][/\ \A p \in Pipes :
            state'[p] # state[p] =>
                /\ <<state[p], state'[p]>> \in
                       {<<"Null", "Playing">>, <<"Playing", "Null">>,
                        <<"Playing", "Paused">>, <<"Paused", "Playing">>,
                        <<"Paused", "Null">>}
                /\ "Paused" \in {state[p], state'[p]} /\ state'[p] # "Null" =>
                       p = "rtmp" /\ InRtmpWatch("Buffering")
       /\ (MadeCall /\ IsTrigger(hmsg)) =>
              /\ Last(hcalls').op = "set_property" =>
                     /\ state["rtmp"] = "Null"
                     /\ Last(hcalls).op = "set_state" /\ Last(hcalls).arg = "Null"
              /\ Last(hcalls').arg = "Playing" =>
                     state["rtmp"] = "Null" /\ Last(hcalls).op = "set_property"]_vars

C16_Witness ==
    /\ hpipe = "rtmp" /\ IsTrigger(hmsg) /\ pc = "loop" /\ hpre = "Paused"
    /\ Len(hcalls) >= 2 /\ Last(hcalls).op = "set_property"
    /\ state["rtmp"] = "Null"

\* A watch called with a Latency message is running.
LatencyWatch == hpipe # "none" /\ hmsg.type = "Latency"

\* C17: a watch called with a Latency message, on either pipeline and in
\* whatever state that pipeline is, calls recalculate_latency on its own
\* pipeline and nothing else, and no step of it changes the state of either
\* pipeline.
C17_LatencyOnlyRecalculates ==
    [][(LatencyWatch \/ LatencyWatch') =>
          /\ state' = state
          /\ LatencyWatch' =>
                 /\ Len(hcalls') <= 1
                 /\ \A i \in DOMAIN hcalls' :
                        /\ hcalls'[i].op = "recalculate_latency"
                        /\ hcalls'[i].pipe = hpipe'
          /\ (LatencyWatch /\ hpipe' = "none") => Len(hcalls) = 1]_vars

C17_Witness ==
    /\ InRtmpWatch("Latency") /\ AtReturn /\ hpre = "Paused"
    /\ Len(hcalls) = 1 /\ hcalls[1].ok
    /\ state["rtmp"] = "Paused" /\ state["comp"] = "Playing"

\* C18: the RTMP watch called with an Error or an Eos while the pipeline is
\* Paused makes the restart sequence, ending with set_state(Playing), and
\* the pipeline is Playing when it returns, with no Buffering message in
\* between.
C18_RestartFromPaused ==
    (hpipe = "rtmp" /\ IsTrigger(hmsg) /\ hpre = "Paused") =>
        /\ bufHist = <<>>
        /\ AtReturn => /\ RestartsIn(hcalls) = 1
                       /\ Last(hcalls).op = "set_state" /\ Last(hcalls).arg = "Playing"
                       /\ state["rtmp"] = "Playing"

C18_Witness ==
    /\ InRtmpWatch("Eos") /\ AtReturn /\ hpre = "Paused"
    /\ state["rtmp"] = "Playing" /\ RestartsIn(hcalls) = 1

\* C19: every call of a watch that returns returns Continue(true): the
\* watch of every built pipeline stays registered, whatever messages were
\* handled and whatever the pause and resume requests returned.
C19_WatchesStayRegistered ==
    /\ \A p \in built : p \in watch
    /\ watch \subseteq built

C19_Witness ==
    /\ pc = "loop" /\ hpipe = "none" /\ posts = 3
    /\ bus = [p \in Pipes |-> <<>>]
    /\ restarts >= 1 /\ Len(bufHist) = 1 /\ ~bufHist[1].ok
    /\ watch = Pipes

\* C20: a pipeline is started only when both are built; the RTMP pipeline
\* is started first; the compositor is started only after the start of the
\* RTMP pipeline succeeded; the main loop is entered only after both starts
\* succeeded.
C20_StartupOrder ==
    [][/\ (pc # "loop" /\ state["rtmp"] = "Null" /\ state'["rtmp"] # "Null") =>
              built = Pipes /\ state["comp"] = "Null" /\ pc = "start_rtmp"
       /\ (state["comp"] = "Null" /\ state'["comp"] # "Null") =>
              built = Pipes /\ state["rtmp"] = "Playing" /\ pc = "start_comp"
       /\ (pc # "loop" /\ pc' = "loop") =>
              state'["rtmp"] = "Playing" /\ state'["comp"] = "Playing"
       /\ pc' = "start_comp" => state'["rtmp"] = "Playing"]_vars

C20_Witness ==
    /\ pc = "loop" /\ posts = 0 /\ built = Pipes
    /\ state = [p \in Pipes |-> "Playing"]

=============================================================================
